---- MODULE Spec2Model ----
(***************************************************************************)
(* Model of src/dqn2.py: the replay memory, the epsilon-greedy policy, the *)
(* optimisation step, the soft update of the target network and the        *)
(* training loop dqn().                                                    *)
(*                                                                         *)
(* Tensors are modelled over small integers.  An observation is a vector   *)
(* of length env.state_dims (a sequence); None is the empty sequence.  A   *)
(* network is a record of its input width, its output width and one weight *)
(* per output unit; evaluating it on a vector of the wrong width raises,   *)
(* as torch.nn.Linear does.  The AdamW step is a nondeterministic choice   *)
(* of new weights of the network that owns the optimizer.  tau is a        *)
(* fraction tau / TauDen.  A raised exception ends the run (pc = "error"). *)
(* The environment is the argument env of dqn(): its two dimensions and    *)
(* the observations and rewards it hands out.                              *)
(*                                                                         *)
(* Spec is the training loop from its setup.  SpecOptimizer starts at the  *)
(* first optimize_model call that samples (the buffer has just reached     *)
(* batch_size) with every buffer content the loop can have built, over a   *)
(* wider range of observations and rewards, and takes that one call.       *)
(***************************************************************************)
EXTENDS Integers, Sequences, FiniteSets, TLC

\* ---- bounds of the model ----
MaxSteps == 3        \* select_action calls in a run
MaxCap == 2          \* largest replay capacity N
MaxBatch == 2        \* largest batch_size
MaxEpisodes == 2     \* largest episode budget
TauDen == 2          \* tau is tau / TauDen

VARIABLES
    state_dims, action_dims,   \* env.state_dims, env.action_dims
    env_observations, env_rewards,   \* what env.reset / env.step hand out
    N, batch_size, episodes, tau, gamma,   \* arguments of dqn()
    policy_net, target_net,    \* the two DQN modules
    memory,                    \* ReplayMemory.memory (the deque)
    steps_done,                \* EpsilonGreedyPolicy.steps_done
    n_actions,                 \* EpsilonGreedyPolicy.n_actions
    pc,                        \* position of dqn() in its loop
    i_episode,                 \* episodes started so far
    state, action, next_state, reward, done,   \* locals of dqn()
    transitions, expected,     \* locals of the last optimize_model call
    optResult,                 \* how the last optimize_model call ended
    sampled,                   \* <<k, size>> of the last memory.sample(k)
    error,                     \* the exception that ended the run
    \* history of calls
    pushed, resets, episodesDone,
    selectCalls, envSteps, optCalls, sampleCalls, trackCalls

vars == <<state_dims, action_dims, env_observations, env_rewards, N, batch_size, episodes, tau, gamma,
          policy_net, target_net, memory, steps_done, n_actions, pc,
          i_episode, state, action, next_state, reward, done,
          transitions, expected, optResult, sampled, error,
          pushed, resets, episodesDone,
          selectCalls, envSteps, optCalls, sampleCalls, trackCalls>>

config == <<state_dims, action_dims, env_observations, env_rewards, N, batch_size, episodes, tau, gamma, n_actions>>
locals == <<state, action, next_state, reward, done>>
optLocals == <<transitions, expected, optResult, sampled, sampleCalls>>

\* ---- values ----
None == <<>>
Dims == {1, 2}
ParamVals == {0, 1}
GammaVals == {1, 2}
\* the environment of Spec: one observation value, reward 1 on every step
ObsVals == {1}
RewardVals == {1}
\* the environment of SpecOptimizer
BatchObsVals == {1, 2}
BatchRewardVals == {0, 1}

Min(a, b) == IF a < b THEN a ELSE b

\* an observation of the environment: a vector of length env.state_dims
Observation(v) == [i \in 1..state_dims |-> v]

Observations(vals) == {Observation(v) : v \in vals}

Transition(s, a, ns, r) == [state |-> s, action |-> a, next_state |-> ns, reward |-> r]

\* ---- ReplayMemory ----
ReplayMemory(capacity) == <<>>

PushDropNewest(mem, tr, capacity) ==
    IF Len(mem) < capacity THEN Append(mem, tr) ELSE mem

\* deque(maxlen=capacity).append: a full deque discards its leftmost item
push(mem, tr, capacity) ==
    IF Len(mem) < capacity THEN Append(mem, tr)
    ELSE SubSeq(Append(mem, tr), 2, Len(mem) + 1)

\* random.sample(population, k): k distinct positions in any order
SampleIndices(n, k) ==
    {idx \in [1..k -> 1..n] : \A i, j \in 1..k : i # j => idx[i] # idx[j]}

\* ---- DQN ----
DQN(n_observations, n_out, w) == [n_in |-> n_observations, n_out |-> n_out, w |-> w]

RECURSIVE SumSeq(_)
SumSeq(x) == IF x = <<>> THEN 0 ELSE x[1] + SumSeq(Tail(x))

ShapeOK(net, x) == Len(x) = net.n_in

forward(net, x) == [a \in 0..(net.n_out - 1) |-> net.w[a] * SumSeq(x)]

MaxValue(q) == CHOOSE m \in {q[a] : a \in DOMAIN q} : \A a \in DOMAIN q : q[a] <= m

\* max(1).indices: the first index holding the maximum
ArgMax(q) == CHOOSE a \in DOMAIN q : q[a] = MaxValue(q) /\ \A b \in DOMAIN q : b < a => q[b] < MaxValue(q)

InsufficientDataOffByOne(mem, bs) == Len(mem) + 1 < bs

\* optimize_model's early return
InsufficientData(mem, bs) == Len(mem) < bs

non_final_mask(tr) == [i \in 1..Len(tr) |-> tr[i].next_state # None]

IsNonFinal(t) == t.next_state # None

non_final_next_states(tr) ==
    LET nf == SelectSeq(tr, IsNonFinal) IN [k \in 1..Len(nf) |-> nf[k].next_state]

\* masked assignment x[mask] = vals: the k-th True of the mask takes vals[k]
MaskRank(mask, i) == Cardinality({j \in 1..i : mask[j]})

ScatterFront(mask, vals) ==
    [i \in 1..Len(mask) |-> IF i <= Len(vals) THEN vals[i] ELSE 0]

MaskedAssign(mask, vals) ==
    [i \in 1..Len(mask) |-> IF mask[i] THEN vals[MaskRank(mask, i)] ELSE 0]

next_state_values(tr, tnet) ==
    LET nfs == non_final_next_states(tr)
        vals == [k \in 1..Len(nfs) |-> MaxValue(forward(tnet, nfs[k]))]
    IN MaskedAssign(non_final_mask(tr), vals)

expected_state_action_values(tr, tnet, g) ==
    LET nsv == next_state_values(tr, tnet)
    IN [i \in 1..Len(tr) |-> (nsv[i] * g) + tr[i].reward]

TargetAliased(tnet, newPolicy) == newPolicy

\* self.optimizer holds self.parameters() only: target_net, a separate
\* module filled by load_state_dict, is not stepped
TargetAfterOptimizerStep(tnet, newPolicy) == tnet

\* ---- EpsilonGreedyPolicy ----
StepsDoneExploreOnly(s, explore) == IF explore THEN s + 1 ELSE s

\* self.steps_done += 1, before the branch
StepsDoneAfterSelect(s, explore) == s + 1

\* ---- soft update ----
SoftUpdateSwapped(p, t, tu) == ((p * (TauDen - tu)) + (t * tu)) \div TauDen

\* policy * tau + target * (1 - tau), for one parameter element
SoftUpdate(p, t, tu) == ((p * tu) + (t * (TauDen - tu))) \div TauDen

\* ---- dqn(): setup ----
Init ==
    /\ state_dims \in Dims
    /\ action_dims \in Dims
    /\ env_observations = ObsVals
    /\ env_rewards = RewardVals
    /\ N \in 1..MaxCap
    /\ batch_size \in 1..MaxBatch
    /\ episodes \in 1..MaxEpisodes
    /\ tau \in 0..TauDen
    /\ gamma \in GammaVals
    /\ n_actions = state_dims
    /\ \E w \in [0..(state_dims - 1) -> ParamVals] :
          /\ policy_net = DQN(action_dims, state_dims, w)
          /\ target_net = DQN(action_dims, state_dims, w)
    /\ memory = ReplayMemory(N)
    /\ steps_done = 0
    /\ pc = "loop"
    /\ i_episode = 0
    /\ state = None
    /\ action = 0
    /\ next_state = None
    /\ reward = 0
    /\ done = FALSE
    /\ transitions = <<>>
    /\ expected = <<>>
    /\ optResult = "none"
    /\ sampled = <<>>
    /\ error = "none"
    /\ pushed = <<>>
    /\ resets = 0
    /\ episodesDone = 0
    /\ selectCalls = 0
    /\ envSteps = 0
    /\ optCalls = 0
    /\ sampleCalls = 0
    /\ trackCalls = 0

\* ---- dqn(): the loop ----
EpisodeStart ==
    /\ pc = "loop"
    /\ i_episode < episodes
    /\ \E v \in env_observations : state' = Observation(v)
    /\ i_episode' = i_episode + 1
    /\ resets' = resets + 1
    /\ pc' = "select"
    /\ UNCHANGED <<config, policy_net, target_net, memory, steps_done,
                   action, next_state, reward, done, optLocals, error,
                   pushed, episodesDone, selectCalls, envSteps, optCalls, trackCalls>>

Finish ==
    /\ pc = "loop"
    /\ i_episode >= episodes
    /\ pc' = "done"
    /\ UNCHANGED <<config, policy_net, target_net, memory, steps_done, i_episode,
                   locals, optLocals, error, pushed, resets, episodesDone,
                   selectCalls, envSteps, optCalls, trackCalls>>

select_action ==
    /\ pc = "select"
    /\ steps_done < MaxSteps
    /\ selectCalls' = selectCalls + 1
    /\ \E explore \in BOOLEAN :
          /\ steps_done' = StepsDoneAfterSelect(steps_done, explore)
          /\ IF explore
             THEN /\ action' \in 0..(n_actions - 1)
                  /\ pc' = "envstep"
                  /\ error' = error
             ELSE IF ShapeOK(policy_net, state)
                  THEN /\ action' = ArgMax(forward(policy_net, state))
                       /\ pc' = "envstep"
                       /\ error' = error
                  ELSE /\ action' = action
                       /\ pc' = "error"
                       /\ error' = "shape"
    /\ UNCHANGED <<config, policy_net, target_net, memory, i_episode,
                   state, next_state, reward, done, optLocals,
                   pushed, resets, episodesDone, envSteps, optCalls, trackCalls>>

env_step ==
    /\ pc = "envstep"
    /\ envSteps' = envSteps + 1
    /\ reward' \in env_rewards
    /\ done' \in BOOLEAN
    /\ \E v \in env_observations : next_state' = IF done' THEN None ELSE Observation(v)
    /\ pc' = "push"
    /\ UNCHANGED <<config, policy_net, target_net, memory, steps_done, i_episode,
                   state, action, optLocals, error,
                   pushed, resets, episodesDone, selectCalls, optCalls, trackCalls>>

memory_push ==
    /\ pc = "push"
    /\ LET tr == Transition(state, action, next_state, reward)
       IN /\ memory' = push(memory, tr, N)
          /\ pushed' = Append(pushed, tr)
    /\ state' = next_state
    /\ pc' = "optimize"
    /\ UNCHANGED <<config, policy_net, target_net, steps_done, i_episode,
                   action, next_state, reward, done, optLocals, error,
                   resets, episodesDone, selectCalls, envSteps, optCalls, trackCalls>>

AllFinal(tr) == \A i \in 1..Len(tr) : tr[i].next_state = None

Raised(kind, tr) ==
    /\ transitions' = tr
    /\ expected' = <<>>
    /\ optResult' = "raised"
    /\ error' = kind
    /\ pc' = "error"
    /\ UNCHANGED <<policy_net, target_net>>

optimize_model ==
    /\ pc = "optimize"
    /\ optCalls' = optCalls + 1
    /\ IF InsufficientData(memory, batch_size)
       THEN /\ optResult' = "noop"
            /\ pc' = "track"
            /\ UNCHANGED <<policy_net, target_net, transitions, expected,
                           sampled, sampleCalls, error>>
       ELSE /\ sampled' = <<batch_size, Len(memory)>>
            /\ sampleCalls' = sampleCalls + 1
            /\ IF batch_size > Len(memory)
               THEN Raised("sample", <<>>)
               ELSE \E idx \in SampleIndices(Len(memory), batch_size) :
                      LET tr == [i \in 1..batch_size |-> memory[idx[i]]]
                      IN IF AllFinal(tr)
                         THEN Raised("cat", tr)
                         ELSE IF ~ShapeOK(policy_net, tr[1].state)
                         THEN Raised("shape", tr)
                         ELSE \E w \in [0..(policy_net.n_out - 1) -> ParamVals] :
                                LET newPolicy == [policy_net EXCEPT !.w = w]
                                IN /\ transitions' = tr
                                   /\ expected' = expected_state_action_values(tr, target_net, gamma)
                                   /\ policy_net' = newPolicy
                                   /\ target_net' = TargetAfterOptimizerStep(target_net, newPolicy)
                                   /\ optResult' = "updated"
                                   /\ error' = error
                                   /\ pc' = "track"
    /\ UNCHANGED <<config, memory, steps_done, i_episode, locals,
                   pushed, resets, episodesDone, selectCalls, envSteps, trackCalls>>

soft_update ==
    /\ pc = "track"
    /\ trackCalls' = trackCalls + 1
    /\ target_net' = [target_net EXCEPT !.w =
           [k \in DOMAIN target_net.w |-> SoftUpdate(policy_net.w[k], target_net.w[k], tau)]]
    /\ IF done
       THEN /\ pc' = "loop"
            /\ episodesDone' = episodesDone + 1
       ELSE /\ pc' = "select"
            /\ episodesDone' = episodesDone
    /\ transitions' = <<>>
    /\ expected' = <<>>
    /\ optResult' = "none"
    /\ UNCHANGED <<config, policy_net, memory, steps_done, i_episode, locals,
                   sampled, sampleCalls, error, pushed, resets,
                   selectCalls, envSteps, optCalls>>

Next ==
    \/ EpisodeStart
    \/ Finish
    \/ select_action
    \/ env_step
    \/ memory_push
    \/ optimize_model
    \/ soft_update

Spec == Init /\ [][Next]_vars

\* ---- the first sampling optimize_model call ----
\* the transitions of the steps so far: each step starts in the state the
\* step before it left, or in a reset observation after a terminal step
StepChain(m) ==
    \A k \in 2..Len(m) : m[k - 1].next_state # None => m[k].state = m[k - 1].next_state

FinalsBefore(m) == Cardinality({k \in 1..(Len(m) - 1) : m[k].next_state = None})

InitOptimizer ==
    /\ state_dims \in Dims
    /\ action_dims = state_dims
    /\ env_observations = BatchObsVals
    /\ env_rewards = BatchRewardVals
    /\ N \in 1..MaxCap
    /\ batch_size = N
    /\ episodes = N
    /\ tau = TauDen
    /\ gamma \in GammaVals
    /\ n_actions = state_dims
    /\ \E w \in [0..(state_dims - 1) -> ParamVals] :
          /\ policy_net = DQN(action_dims, state_dims, w)
          /\ target_net = DQN(action_dims, state_dims, w)
    /\ memory \in {m \in [1..N -> [state : Observations(BatchObsVals),
                                    action : 0..(state_dims - 1),
                                    next_state : Observations(BatchObsVals) \cup {None},
                                    reward : BatchRewardVals]] : StepChain(m)}
    /\ pushed = memory
    /\ steps_done = N
    /\ pc = "optimize"
    /\ i_episode = FinalsBefore(memory) + 1
    /\ resets = FinalsBefore(memory) + 1
    /\ episodesDone = FinalsBefore(memory)
    /\ state = memory[N].next_state
    /\ action = memory[N].action
    /\ next_state = memory[N].next_state
    /\ reward = memory[N].reward
    /\ done = (memory[N].next_state = None)
    /\ transitions = <<>>
    /\ expected = <<>>
    /\ optResult = "none"
    /\ sampled = <<>>
    /\ error = "none"
    /\ selectCalls = N
    /\ envSteps = N
    /\ optCalls = N - 1
    /\ sampleCalls = 0
    /\ trackCalls = N - 1

SpecOptimizer == InitOptimizer /\ [][optimize_model]_vars

\* ---- properties ----
LastN(s, k) == SubSeq(s, Len(s) - k + 1, Len(s))

BetweenSteps == pc \in {"select", "loop", "done"}

\* C1: after n pushes into a buffer of capacity N the buffer holds exactly
\* the min(n, N) most recently pushed transitions in insertion order; its
\* size never exceeds N and a push on a full buffer evicts the oldest.
C1_MostRecentN ==
    /\ Len(memory) <= N
    /\ Len(memory) = Min(Len(pushed), N)
    /\ memory = LastN(pushed, Min(Len(pushed), N))

C1_Witness ==
    /\ Len(pushed) > N
    /\ Len(memory) = N
    /\ memory[N] = pushed[Len(pushed)]
    /\ memory[1] # pushed[1]

\* C2: optimize_model invoked with fewer than batch_size stored transitions
\* returns without an error, without calling sample and without changing
\* either network or the buffer; sample(k) is never called with k > size.
C2_SilentNoOp ==
    /\ [][(pc = "optimize" /\ Len(memory) < batch_size) =>
             /\ pc' = "track"
             /\ error' = "none"
             /\ optResult' = "noop"
             /\ sampleCalls' = sampleCalls
             /\ policy_net' = policy_net
             /\ target_net' = target_net
             /\ memory' = memory]_vars
    /\ [](sampled # <<>> => sampled[1] <= sampled[2])

C2_Witness ==
    /\ pc = "track"
    /\ optResult = "noop"
    /\ Len(memory) > 0
    /\ Len(memory) < batch_size
    /\ sampleCalls = 0

C4_StepsDone ==
    /\ [](steps_done = selectCalls)
    /\ [](BetweenSteps => steps_done = envSteps)
    /\ [](steps_done - envSteps \in {0, 1})
    /\ [][pc = "select" => steps_done' = steps_done + 1]_vars
    /\ [][steps_done' # steps_done => pc = "select"]_vars

C4_Witness ==
    /\ pc = "select"
    /\ episodesDone >= 1
    /\ steps_done >= 2
    /\ steps_done = envSteps

\* C5: one soft update with tau = 1 makes every target parameter equal to the
\* policy parameter; with tau = 0 it leaves every target parameter unchanged
\* (so any number of them does); the policy parameters are never modified.
C5_SoftUpdate ==
    [][pc = "track" =>
          /\ policy_net' = policy_net
          /\ (tau = TauDen => target_net'.w = policy_net.w)
          /\ (tau = 0 => target_net' = target_net)]_vars

C5_Witness ==
    /\ BetweenSteps
    /\ trackCalls >= 1
    /\ tau = TauDen
    /\ sampleCalls >= 1
    /\ target_net.w = policy_net.w

\* C6: every action index select_action returns, and every action stored in
\* a Transition, lies in [0, env.action_dims).
C6_ActionInRange ==
    /\ action \in 0..(action_dims - 1)
    /\ \A i \in 1..Len(memory) : memory[i].action \in 0..(action_dims - 1)

\* C7: every environment step performs, in this order, one select_action,
\* one env.step, one push (next_state absent iff done), one optimize_model
\* call and one soft update before any further select_action or reset; after
\* t steps the buffer size is min(t, N).
C7_StepSequence ==
    /\ BetweenSteps =>
          /\ selectCalls = envSteps
          /\ envSteps = Len(pushed)
          /\ Len(pushed) = optCalls
          /\ optCalls = trackCalls
          /\ Len(memory) = Min(envSteps, N)
    /\ pc = "envstep" =>
          /\ selectCalls = envSteps + 1
          /\ envSteps = Len(pushed) /\ Len(pushed) = optCalls /\ optCalls = trackCalls
    /\ pc = "push" =>
          /\ selectCalls = envSteps
          /\ envSteps = Len(pushed) + 1
          /\ Len(pushed) = optCalls /\ optCalls = trackCalls
    /\ pc = "optimize" =>
          /\ selectCalls = envSteps /\ envSteps = Len(pushed)
          /\ Len(pushed) = optCalls + 1
          /\ optCalls = trackCalls
          /\ (pushed[Len(pushed)].next_state = None) <=> done
    /\ pc = "track" =>
          /\ selectCalls = envSteps /\ envSteps = Len(pushed)
          /\ Len(pushed) = optCalls
          /\ optCalls = trackCalls + 1
    /\ pc = "error" =>
          /\ envSteps = Len(pushed)
          /\ Len(pushed) = optCalls
          /\ optCalls = trackCalls

\* C8: the loop runs exactly `episodes` episodes: env.reset is called
\* `episodes` times, an episode ends at its first done, select_action never
\* sees an absent state, and the run ends only with the budget exhausted.
C8_EpisodeBudget ==
    /\ resets <= episodes
    /\ pc = "select" => state # None
    /\ pc \in {"select", "envstep", "push", "optimize", "track"} => episodesDone = resets - 1
    /\ pc \in {"done", "error"} => (resets = episodes /\ episodesDone = episodes)

\* C9: an optimize_model call, no-op or not, leaves the target network, the
\* buffer and steps_done unchanged; the target network changes only in the
\* soft update.
C9_OptimizerFrame ==
    /\ [][pc = "optimize" =>
             /\ target_net' = target_net
             /\ memory' = memory
             /\ steps_done' = steps_done]_vars
    /\ [][target_net' # target_net => pc = "track"]_vars

C9_Witness ==
    /\ pc = "track"
    /\ optResult = "updated"
    /\ policy_net.w # target_net.w
    /\ trackCalls = 0

\* C10: with at least batch_size stored transitions optimize_model completes
\* for every sampled batch; on a batch whose transitions are all terminal the
\* expected values are the rewards and the policy network is still updated.
C10_AllTerminalBatch ==
    (optResult \in {"updated", "raised"} /\ transitions # <<>> /\ AllFinal(transitions)) =>
        /\ optResult = "updated"
        /\ error = "none"
        /\ \A i \in 1..Len(transitions) : expected[i] = transitions[i].reward

====
